---- MODULE Spec2Model ----
(***************************************************************************)
(* The native half of com.droidwolf.fix.FileObserver$ObserverThread        *)
(* (android_util_FileObserver.cpp): init, observe, startWatching,          *)
(* stopWatching and release over one inotify descriptor.                   *)
(*                                                                         *)
(* Two specifications share the code of the observe loop:                  *)
(*   Spec    the descriptor delivers arbitrary bytes (whole records, cut   *)
(*           records, short reads, errors): the decoder's contract;        *)
(*   OsSpec  the descriptor is an inotify instance: watches, the kernel's  *)
(*           event queue, reads that return whole queued records.          *)
(*   OsFairSpec is OsSpec with the fairness of the loop thread, its        *)
(*           registration calls not recorded in lastCall.                  *)
(***************************************************************************)
EXTENDS Integers, Sequences, FiniteSets, TLC

(* ------------------------------------------------------------------ *)
(* Program constants                                                    *)
(* ------------------------------------------------------------------ *)
HeaderSize == 16
BufSize == 512
EINTR == 4
EIO == 5
EBADF == 9
IN_CREATE == 256
IN_DELETE == 512
IN_IGNORED == 32768
\* the descriptor number inotify_init() hands out (the lowest free one)
ChanFd == 0

(* ------------------------------------------------------------------ *)
(* Bounds of the model                                                  *)
(* ------------------------------------------------------------------ *)
\* records packed into one delivery of the descriptor (Spec)
MaxRecs == 2
\* watch descriptors one inotify instance hands out (max_user_watches)
MaxWd == 2
\* records the kernel queues over one run (OsSpec)
MaxEvents == 2

\* sink calls logged for one read; beyond MaxRecs so that a runaway
\* decode is visible
MaxCalls == MaxRecs + 1

MaxInt == 2147483647
MinInt == -MaxInt - 1

\* errno values; NoErr is an errno no call has written
NoErr == 0
Errnos == {NoErr, EINTR, EIO, EBADF}

\* a jstring argument: NULL, or a reference to the string's characters
NULL == << >>
JString(chars) == << chars >>

(* ------------------------------------------------------------------ *)
(* C integer conversions                                                *)
(* ------------------------------------------------------------------ *)
(* A 32-bit field is held as the int with the same bit pattern: the       *)
(* uint32_t 4294967280 is held as -16. An unsigned field is positive      *)
(* exactly when its pattern is not 0.                                     *)

\* the four bytes of a 32-bit pattern, little-endian
Le32(x) == << x % 256, (x \div 256) % 256, (x \div 65536) % 256, (x \div 16777216) % 256 >>

\* the pattern of four little-endian bytes
S32(b) == b[1] + 256 * b[2] + 65536 * b[3] + 16777216 * (IF b[4] >= 128 THEN b[4] - 256 ELSE b[4])

\* a + b in 32 bits, for b >= 0
Add32(a, b) == IF a > MaxInt - b THEN (a + MinInt) + (b + MinInt) ELSE a + b

Min(a, b) == IF a < b THEN a ELSE b

Zeros(n) == [i \in 1 .. n |-> 0]

(* one raw record on the wire: the 16-byte header followed by the name *)
(* field; r.name holds the bytes actually present after the header    *)
Encode(r) == Le32(r.wd) \o Le32(r.mask) \o Le32(r.cookie) \o Le32(r.len) \o r.name

RECURSIVE Flatten(_)
Flatten(rs) == IF rs = <<>> THEN <<>> ELSE Encode(Head(rs)) \o Flatten(Tail(rs))

(* a name padded with NULs to the declared length *)
Padded(s, len) == s \o Zeros(len - Len(s))

Rec(wd, mask, len, s) ==
    [wd |-> wd, mask |-> mask, cookie |-> 0, len |-> len, name |-> Padded(s, Min(len, BufSize))]

(* ------------------------------------------------------------------ *)
(* State                                                                *)
(* ------------------------------------------------------------------ *)
VARIABLES
    chanOpen,    \* the descriptor ChanFd is an open inotify instance
    watches,     \* kernel: live watch descriptor -> [path, mask]
    nextWd,      \* kernel: next watch descriptor of the instance
    queue,       \* kernel: records queued on the instance, oldest first
    pc,          \* observe thread: "idle", "read" (about to call read), "blocked"
                 \* (inside read), "decode", "stopped" (returned), "crashed"
    readOn,      \* the read in progress was issued on: "live" (the open channel),
                 \* "released" (a channel closed since), "bad" (no open descriptor)
    fd,          \* observe's argument
    event_buf,   \* char event_buf[512], held as the bytes written so far (data)
                 \* and the byte every other element holds (fill)
    num_bytes,   \* int num_bytes
    event_pos,   \* int event_pos
    errno,       \* errno of the observe thread
    pending,     \* a Java exception is pending on the observe thread
    lastRead,    \* history: what the last read returned, and whether the channel
                 \* it came from is still open
    calls,       \* history: the sink calls made for the last read
    thrownAt,    \* history: the first of those calls that threw (0: none)
    queuedN,     \* history: how many records the kernel queued (and did not drop)
    deliveredN,  \* history: how many sink calls the run made (OsSpec)
    issued,      \* history: handle -> path, for handles startWatching returned
    removed,     \* history: issued handles passed to stopWatching on the open channel
    lastCall     \* history: the last call on a channel handle and its result

vars == << chanOpen, watches, nextWd, queue, pc, readOn, fd, event_buf, num_bytes, event_pos,
           errno, pending, lastRead, calls, thrownAt, queuedN, deliveredN, issued, removed,
           lastCall >>

kernelVars == << chanOpen, watches, nextWd, queue >>
loopVars == << pc, readOn, fd, event_buf, num_bytes, event_pos, errno, pending >>
regHist == << issued, removed, lastCall >>

Paths == {"A", "B"}
NoPath == "X"            \* a path that does not exist

\* an event_buf whose 512 elements all hold byte b
FilledBuf(b) == [fill |-> b, data |-> << >>]

NoRead == [n |-> -2, err |-> NoErr, wire |-> << >>, live |-> FALSE]
NoCall == [op |-> "none", fd |-> 0, arg |-> 0, res |-> 0, sys |-> FALSE]
NoWatches == [w \in {} |-> 0]

Init ==
    /\ chanOpen = FALSE
    /\ watches = NoWatches
    /\ nextWd = 1
    /\ queue = << >>
    /\ pc = "idle"
    /\ readOn = "none"
    /\ fd = 0
    /\ event_buf = FilledBuf(0)
    /\ num_bytes = 0
    /\ event_pos = 0
    /\ errno = NoErr
    /\ pending = FALSE
    /\ lastRead = NoRead
    /\ calls = << >>
    /\ thrownAt = 0
    /\ queuedN = 0
    /\ deliveredN = 0
    /\ issued = NoWatches
    /\ removed = {}
    /\ lastCall = NoCall

(* ------------------------------------------------------------------ *)
(* The observe loop: android_os_fileobserver_observe                    *)
(* ------------------------------------------------------------------ *)

\* event_buf[i], for 0 <= i < BufSize
ByteAt(buf, i) == IF i < Len(buf.data) THEN buf.data[i + 1] ELSE buf.fill

\* data without the trailing bytes that equal the fill
Trimmed(fill, data) ==
    IF \E i \in 1 .. Len(data) : data[i] # fill
    THEN SubSeq(data, 1, CHOOSE i \in 1 .. Len(data) :
                            data[i] # fill /\ \A j \in i + 1 .. Len(data) : data[j] = fill)
    ELSE << >>

\* read(fd, event_buf, sizeof(event_buf)): the first n bytes of the buffer
\* are overwritten, the rest keeps what it held
StoreRead(buf, data, n) ==
    IF n <= 0 THEN buf
    ELSE [fill |-> buf.fill,
          data |-> Trimmed(buf.fill,
                           [i \in 1 .. (IF Len(buf.data) > n THEN Len(buf.data) ELSE n) |->
                               IF i <= n THEN data[i] ELSE buf.data[i]])]

\* errno after read: written only when the call fails
ErrnoAfterRead(n, err, old) == IF n < 0 THEN err ELSE old

\* if (num_bytes < (int) sizeof(*event))
IsShort(n) == n < HeaderSize

\* a loop that retries every short read
RetryRead_always(e) == TRUE

\* a loop that gives up on every short read
RetryRead_never(e) == FALSE

\* if (errno == EINTR) continue;
RetryRead(e) == e = EINTR

\* where the loop goes after read returned n with errno e
AfterRead(n, e) ==
    IF IsShort(n)
    THEN IF RetryRead(e) THEN "read" ELSE "stopped"
    ELSE "decode"

\* a loop that goes on only while two headers are left
HasMore_two(nb) == nb >= 2 * HeaderSize

\* a loop that dispatches the first record of a read only
HasMore_once(nb) == FALSE

\* a loop that goes on only while more than a header is left
HasMore_name(nb) == nb > HeaderSize

\* while (num_bytes >= (int) sizeof(*event))
HasMore(nb) == nb >= HeaderSize

S32At(buf, p) ==
    S32(<< ByteAt(buf, p), ByteAt(buf, p + 1), ByteAt(buf, p + 2), ByteAt(buf, p + 3) >>)

\* event = (struct inotify_event *) (event_buf + event_pos)
EventAt(buf, pos) ==
    [wd |-> S32At(buf, pos),
     mask |-> S32At(buf, pos + 4),
     cookie |-> S32At(buf, pos + 8),
     len |-> S32At(buf, pos + 12)]

\* the header at pos lies inside event_buf
HeaderInBuf(pos) == pos >= 0 /\ pos + HeaderSize <= BufSize

\* what a read outside event_buf may find
GarbageEvents ==
    { [wd |-> 0, mask |-> 0, cookie |-> 0, len |-> 0],
      [wd |-> 7, mask |-> 1, cookie |-> 0, len |-> HeaderSize] }
GarbageTails == { << >>, << 1 >> }

EventChoices(buf, pos) ==
    IF HeaderInBuf(pos) THEN { EventAt(buf, pos) } ELSE GarbageEvents

\* index of the first NUL at or after start, BufSize when event_buf holds none
NulAt(buf, start) ==
    IF start < 0 \/ start >= BufSize THEN BufSize
    ELSE IF \E i \in start .. Len(buf.data) - 1 : buf.data[i + 1] = 0
    THEN CHOOSE i \in start .. Len(buf.data) - 1 :
            buf.data[i + 1] = 0 /\ \A j \in start .. i - 1 : buf.data[j + 1] # 0
    ELSE IF buf.fill = 0
    THEN (IF start > Len(buf.data) THEN start ELSE Len(buf.data))
    ELSE BufSize

\* the bytes of event_buf in [from, to)
Bytes(buf, from, to) == [i \in 1 .. (to - from) |-> ByteAt(buf, from + i - 1)]

\* NewStringUTF(event->name): the characters up to the first NUL. The names
\* are 7-bit, where modified UTF-8 maps each byte to the character of the
\* same code. A scan that leaves event_buf reads whatever lies behind it.
NewStringUTF(buf, start) ==
    IF start < 0 \/ start >= BufSize THEN { JString(g) : g \in GarbageTails }
    ELSE IF NulAt(buf, start) < BufSize THEN { JString(Bytes(buf, start, NulAt(buf, start))) }
    ELSE { JString(Bytes(buf, start, BufSize) \o g) : g \in GarbageTails }

\* a loop that builds a string for every record
PathChoices_always(buf, pos, len) == NewStringUTF(buf, pos + HeaderSize)

\* jstring path = NULL; if (event->len > 0) path = env->NewStringUTF(event->name);
PathChoices(buf, pos, len) ==
    IF len # 0 THEN NewStringUTF(buf, pos + HeaderSize) ELSE { NULL }

\* the iteration at pos reads outside event_buf
ReadsOutside(buf, pos) ==
    IF HeaderInBuf(pos)
    THEN EventAt(buf, pos).len # 0 /\ NulAt(buf, pos + HeaderSize) >= BufSize
    ELSE TRUE

\* a loop that advances by the header alone
EventSize_header(len) == HeaderSize

\* event_size = sizeof(*event) + event->len, stored in an int
EventSize(len) == Add32(len, HeaderSize)

\* a loop that leaves the exception pending
ExceptionAfterCheck_kept(threw) == threw

\* if (env->ExceptionCheck()) { ExceptionDescribe(); ExceptionClear(); }
ExceptionAfterCheck(threw) == IF threw THEN FALSE ELSE threw

\* env->CallVoidMethod(object, method_onEvent, event->wd, event->mask, path)
SinkCall(pos, ev, path) ==
    [pos |-> pos, wd |-> ev.wd, mask |-> ev.mask, len |-> ev.len, path |-> path]

\* observe(fd) is entered: event_buf is a fresh, uninitialised stack array,
\* every element of which holds one of the bytes of fills
ObserveOn(fills) ==
    /\ pc = "idle"
    /\ \E f \in {-1, ChanFd}, b \in fills :
        /\ fd' = f
        /\ event_buf' = FilledBuf(b)
    /\ pc' = "read"
    /\ UNCHANGED << kernelVars, readOn, num_bytes, event_pos, errno, pending, lastRead, calls,
                    thrownAt, queuedN, deliveredN, regHist >>

\* int event_pos = 0; read(fd, ...) is entered. The history of the previous
\* read ends here.
ReadCall ==
    /\ pc = "read"
    /\ pc' = "blocked"
    /\ event_pos' = 0
    /\ readOn' = IF fd = ChanFd /\ chanOpen THEN "live" ELSE "bad"
    /\ lastRead' = NoRead
    /\ calls' = << >>
    /\ thrownAt' = 0
    /\ UNCHANGED << kernelVars, fd, event_buf, num_bytes, errno, pending, queuedN, deliveredN,
                    regHist >>

\* read returns n (data holds the bytes, err the errno of a failure) and the
\* loop tests the result; when observe returns its locals are gone
ReadReturn(n, data, err, wire) ==
    /\ pc = "blocked"
    /\ pc' = AfterRead(n, ErrnoAfterRead(n, err, errno))
    /\ IF pc' = "stopped"
       THEN /\ num_bytes' = 0
            /\ event_buf' = FilledBuf(0)
       ELSE /\ num_bytes' = n
            /\ event_buf' = StoreRead(event_buf, data, n)
    /\ errno' = ErrnoAfterRead(n, err, errno)
    /\ readOn' = "none"
    /\ lastRead' = [n |-> n, err |-> IF n < 0 THEN err ELSE NoErr, wire |-> wire,
                     live |-> TRUE]
    /\ UNCHANGED << fd, event_pos, pending, calls, thrownAt >>

\* one iteration of the inner loop; the sink throws or not (throws), and
\* leaves errno alone or sets it to one of sinkErrnos (no library call sets
\* errno to 0)
DispatchStep(throws, sinkErrnos) ==
    /\ pc = "decode"
    /\ Len(calls) < MaxCalls
    /\ \E ev \in EventChoices(event_buf, event_pos) :
       \E path \in PathChoices(event_buf, event_pos, ev.len) :
       \E threw \in throws, e \in {errno} \cup sinkErrnos :
            /\ calls' = Append(calls, SinkCall(event_pos, ev, path))
            /\ thrownAt' = IF threw /\ thrownAt = 0 THEN Len(calls) + 1 ELSE thrownAt
            /\ pending' = ExceptionAfterCheck(threw)
            /\ errno' = e
            /\ num_bytes' = num_bytes - EventSize(ev.len)
            /\ event_pos' = event_pos + EventSize(ev.len)
            /\ pc' = IF HasMore(num_bytes - EventSize(ev.len)) THEN "decode" ELSE "read"
    /\ UNCHANGED << kernelVars, readOn, fd, event_buf, lastRead, queuedN, regHist >>

\* an iteration that reads outside event_buf may also end the process
Fault ==
    /\ pc = "decode"
    /\ ReadsOutside(event_buf, event_pos)
    /\ pc' = "crashed"
    /\ UNCHANGED << kernelVars, readOn, fd, event_buf, num_bytes, event_pos, errno, pending,
                    lastRead, calls, thrownAt, queuedN, deliveredN, regHist >>

(* ------------------------------------------------------------------ *)
(* Registration: init, startWatching, stopWatching, release, and the   *)
(* kernel's side of each call                                          *)
(* ------------------------------------------------------------------ *)

\* bit b of mask m is set
HasBit(m, b) == (m \div b) % 2 = 1

\* the masks startWatching is called with, and the kinds of event that happen
WatchMasks == { IN_CREATE, IN_DELETE }
EventKinds == { IN_CREATE }

\* the watch descriptor on path p, 0 when there is none
WdOf(w, p) ==
    IF \E h \in DOMAIN w : w[h].path = p
    THEN CHOOSE h \in DOMAIN w : w[h].path = p
    ELSE 0

\* inotify_init(): the lowest free descriptor, -1 when none is free
InitRes(open) == IF open THEN -1 ELSE ChanFd

\* return (jint) inotify_init();
InotifyInit ==
    /\ IF InitRes(chanOpen) >= 0
       THEN /\ chanOpen' = TRUE
            /\ watches' = NoWatches
            /\ nextWd' = 1
            /\ queue' = << >>
            /\ issued' = NoWatches
            /\ removed' = {}
            /\ lastCall' = NoCall
       ELSE UNCHANGED << kernelVars, regHist >>
    /\ UNCHANGED << loopVars, lastRead, calls, thrownAt, queuedN, deliveredN >>

\* inotify_add_watch(fd, path, mask) on the kernel's state: the result
AddWatchRes(f, p, m) ==
    IF f # ChanFd \/ ~chanOpen THEN -1
    ELSE IF p \notin Paths THEN -1
    ELSE IF WdOf(watches, p) # 0 THEN WdOf(watches, p)
    ELSE IF nextWd > MaxWd THEN -1
    ELSE nextWd

\* a startWatching that calls inotify_add_watch whatever fd is
StartWatchingAsks_always(f) == TRUE

\* if (fd >= 0): startWatching calls inotify_add_watch
StartWatchingAsks(f) == f >= 0

\* a startWatching that returns 0 for every failure
StartWatchingRes_zero(f, p, m) ==
    IF StartWatchingAsks(f) /\ AddWatchRes(f, p, m) >= 0 THEN AddWatchRes(f, p, m) ELSE 0

\* int res = -1; if (fd >= 0) res = inotify_add_watch(fd, path, mask); return res;
StartWatchingRes(f, p, m) == IF StartWatchingAsks(f) THEN AddWatchRes(f, p, m) ELSE -1

\* startWatching(fd, path, mask) and the kernel's side of it
StartWatchingOn(f, p, m) ==
        /\ IF StartWatchingAsks(f) /\ AddWatchRes(f, p, m) >= 0
           THEN /\ watches' = [h \in DOMAIN watches \cup {AddWatchRes(f, p, m)} |->
                                 IF h = AddWatchRes(f, p, m)
                                 THEN [path |-> p, mask |-> m] ELSE watches[h]]
                /\ nextWd' = IF AddWatchRes(f, p, m) = nextWd THEN nextWd + 1 ELSE nextWd
           ELSE UNCHANGED << watches, nextWd >>
        /\ issued' = IF StartWatchingRes(f, p, m) >= 0
                     THEN [h \in DOMAIN issued \cup {StartWatchingRes(f, p, m)} |->
                             IF h = StartWatchingRes(f, p, m) THEN p ELSE issued[h]]
                     ELSE issued
        /\ UNCHANGED << chanOpen, queue, loopVars, lastRead, calls, thrownAt, queuedN,
                        deliveredN, removed >>

\* the call, recorded with its result as the last call on a channel handle
StartWatching ==
    \E f \in {-1, ChanFd}, p \in Paths \cup {NoPath}, m \in WatchMasks :
        /\ StartWatchingOn(f, p, m)
        /\ lastCall' = [op |-> "start", fd |-> f, arg |-> p, res |-> StartWatchingRes(f, p, m),
                         sys |-> StartWatchingAsks(f)]

\* the call, not recorded
StartWatchingUnrecorded ==
    \E f \in {-1, ChanFd}, p \in Paths \cup {NoPath}, m \in WatchMasks :
        StartWatchingOn(f, p, m) /\ UNCHANGED lastCall

\* a queued record, with the path its event happened on (history)
Queued(p, r) ==
    [path |-> p, wd |-> r.wd, mask |-> r.mask, cookie |-> r.cookie, len |-> r.len,
     name |-> r.name]

\* a stopWatching that removes the watch before
RmWatchArg_prev(wfd) == wfd - 1

\* a stopWatching that removes the next watch
RmWatchArg_next(wfd) == wfd + 1

\* the watch descriptor inotify_rm_watch receives: (uint32_t) wfd, taken as __s32
RmWatchArg(wfd) == S32(Le32(wfd))

\* inotify_rm_watch((int) fd, (uint32_t) wfd); the kernel queues IN_IGNORED
\* for the watch it removes
StopWatchingOn(f, wfd) ==
        /\ IF f = ChanFd /\ chanOpen /\ RmWatchArg(wfd) \in DOMAIN watches
           THEN /\ queuedN < MaxEvents
                /\ watches' = [h \in DOMAIN watches \ {RmWatchArg(wfd)} |-> watches[h]]
                /\ queue' = Append(queue, Queued(watches[RmWatchArg(wfd)].path,
                                                 Rec(RmWatchArg(wfd), IN_IGNORED, 0, << >>)))
                /\ queuedN' = queuedN + 1
           ELSE UNCHANGED << watches, queue, queuedN >>
        /\ removed' = IF f = ChanFd /\ chanOpen /\ wfd \in DOMAIN issued
                      THEN removed \cup {wfd} ELSE removed
        /\ UNCHANGED << chanOpen, nextWd, loopVars, lastRead, calls, thrownAt, deliveredN,
                        issued >>

StopWatching ==
    \E f \in {-1, ChanFd}, wfd \in 1 .. MaxWd + 1 :
        /\ StopWatchingOn(f, wfd)
        /\ lastCall' = [op |-> "stop", fd |-> f, arg |-> wfd, res |-> 0, sys |-> TRUE]

StopWatchingUnrecorded ==
    \E f \in {-1, ChanFd}, wfd \in 1 .. MaxWd + 1 :
        StopWatchingOn(f, wfd) /\ UNCHANGED lastCall

\* a release that closes whatever it is given
ReleaseCloses_always(f) == TRUE

\* if (fd >= 0)
ReleaseCloses(f) == f >= 0

\* if (fd >= 0) close(fd); closing the instance drops its watches and its
\* queue, and ends a read in progress on it
ReleaseOn(f) ==
        /\ IF ReleaseCloses(f) /\ f = ChanFd /\ chanOpen
           THEN /\ chanOpen' = FALSE
                /\ watches' = NoWatches
                /\ queue' = << >>
                /\ queuedN' = queuedN - Len(queue)
                /\ readOn' = IF readOn = "live" THEN "released" ELSE readOn
                /\ lastRead' = [lastRead EXCEPT !.live = FALSE]
           ELSE UNCHANGED << chanOpen, watches, queue, queuedN, readOn, lastRead >>
        /\ UNCHANGED << nextWd, pc, fd, event_buf, num_bytes, event_pos, errno, pending,
                        calls, thrownAt, deliveredN, issued, removed >>

Release ==
    \E f \in {-1, ChanFd} :
        /\ ReleaseOn(f)
        /\ lastCall' = [op |-> "release", fd |-> f, arg |-> 0, res |-> 0,
                         sys |-> ReleaseCloses(f)]

ReleaseUnrecorded ==
    \E f \in {-1, ChanFd} : ReleaseOn(f) /\ UNCHANGED lastCall

(* ------------------------------------------------------------------ *)
(* Spec: the descriptor delivers arbitrary bytes                        *)
(* ------------------------------------------------------------------ *)
NameA == << 97, 0, 98 >>       \* "a", a NUL, then a stray "b"

WellFormedKinds ==
    { Rec(1, IN_CREATE, 0, << >>),
      Rec(2, IN_DELETE, HeaderSize, NameA) }

\* nameLength fields for which sizeof(*event) + len is 0 and -16 as an int
BadKinds ==
    { [wd |-> 1, mask |-> IN_CREATE, cookie |-> 0, len |-> -HeaderSize, name |-> << >>],
      [wd |-> 2, mask |-> IN_DELETE, cookie |-> 0, len |-> -2 * HeaderSize, name |-> << >>] }

Kinds == WellFormedKinds \cup BadKinds

\* what the descriptor delivers to one read: up to MaxRecs records, all
\* well-formed except possibly the last
Wires ==
    UNION { { w \in [1 .. k -> Kinds] : \A i \in 1 .. k - 1 : w[i] \in WellFormedKinds } :
            k \in 1 .. MaxRecs }

\* the byte counts one read of the wire may return: all of it (at most the
\* buffer), or all but the name of its last record
Cuts(wire) ==
    LET t == Min(Len(Flatten(wire)), BufSize)
    IN  IF wire[Len(wire)].name # << >> THEN { t, t - HeaderSize } ELSE { t }

ReadRaw ==
    /\ readOn = "live"
    /\ \E wire \in Wires : \E n \in Cuts(wire) :
            ReadReturn(n, Flatten(wire), NoErr, wire)
    /\ UNCHANGED << kernelVars, queuedN, deliveredN, regHist >>

\* the read returns fewer bytes than a header: none (end-of-channel), or half
\* a header
ReadShort ==
    /\ readOn = "live"
    /\ \E n \in {0, HeaderSize \div 2} :
            ReadReturn(n, Encode(Rec(1, IN_CREATE, 0, << >>)), NoErr, << >>)
    /\ UNCHANGED << kernelVars, queuedN, deliveredN, regHist >>

\* the read fails: interrupted by a signal, or an I/O error
ReadFails ==
    /\ readOn = "live"
    /\ \E err \in {EINTR, EIO} : ReadReturn(-1, << >>, err, << >>)
    /\ UNCHANGED << kernelVars, queuedN, deliveredN, regHist >>

\* a read on no open descriptor fails with EBADF; a read in progress on a
\* channel that is closed under it ends with end-of-channel or with EBADF
ReadDead ==
    /\ readOn \in {"released", "bad"}
    /\ \/ ReadReturn(-1, << >>, EBADF, << >>)
       \/ readOn = "released" /\ ReadReturn(0, << >>, NoErr, << >>)
    /\ UNCHANGED << kernelVars, queuedN, deliveredN, regHist >>

\* the sink may throw, and may leave EINTR in errno
DispatchRaw == DispatchStep(BOOLEAN, {EINTR}) /\ UNCHANGED deliveredN

Observe == ObserveOn({0, 97})

Next ==
    \/ InotifyInit
    \/ Observe
    \/ ReadCall
    \/ ReadRaw
    \/ ReadShort
    \/ ReadFails
    \/ ReadDead
    \/ DispatchRaw
    \/ Fault

Spec == Init /\ [][Next]_vars

(* ------------------------------------------------------------------ *)
(* OsSpec: the descriptor is an inotify instance                        *)
(* ------------------------------------------------------------------ *)
FileNames == { << 97 >> }

\* the record the kernel queues for an event of kind k on file nm under the
\* watch h: the name NUL-padded to a multiple of the header size
EventRec(h, k, nm) == Rec(h, k, HeaderSize, nm)

\* something happens to a file under a watched path: the kernel queues a
\* record on the instance when the watch's mask asks for that kind
FsEvent ==
    /\ chanOpen
    /\ queuedN < MaxEvents
    /\ \E p \in Paths, k \in EventKinds, nm \in FileNames :
        /\ WdOf(watches, p) # 0
        /\ HasBit(watches[WdOf(watches, p)].mask, k)
        /\ queue' = Append(queue, Queued(p, EventRec(WdOf(watches, p), k, nm)))
        /\ queuedN' = queuedN + 1
    /\ UNCHANGED << chanOpen, watches, nextWd, loopVars, lastRead, calls, thrownAt, deliveredN,
                    regHist >>

\* how many of the oldest queued records fit one read of BufSize bytes
FitCount(q) ==
    CHOOSE k \in 0 .. Len(q) :
        /\ Len(Flatten(SubSeq(q, 1, k))) <= BufSize
        /\ k < Len(q) => Len(Flatten(SubSeq(q, 1, k + 1))) > BufSize

\* the read returns the queued records that fit, oldest first
ReadQueue ==
    /\ readOn = "live"
    /\ queue # << >>
    /\ \E k \in {FitCount(queue)} : \E data \in {Flatten(SubSeq(queue, 1, k))} :
            /\ ReadReturn(Len(data), data, NoErr, SubSeq(queue, 1, k))
            /\ queue' = SubSeq(queue, k + 1, Len(queue))
    /\ UNCHANGED << chanOpen, watches, nextWd, queuedN, deliveredN, regHist >>

\* one iteration of the inner loop, its sink call counted; the sink returns
\* normally and leaves errno alone
Dispatch ==
    /\ DispatchStep({FALSE}, {})
    /\ deliveredN' = deliveredN + 1

\* the kernel's records never send the loop past the bytes it was given, so
\* what event_buf held at entry is never read
ObserveOs == ObserveOn({0})

OsNext ==
    \/ InotifyInit
    \/ StartWatching
    \/ StopWatching
    \/ Release
    \/ FsEvent
    \/ ObserveOs
    \/ ReadCall
    \/ ReadQueue
    \/ ReadFails
    \/ ReadDead
    \/ Dispatch

OsSpec == Init /\ [][OsNext]_vars

\* the same steps, the registration calls not recorded in lastCall
OsFairNext ==
    \/ InotifyInit
    \/ StartWatchingUnrecorded
    \/ StopWatchingUnrecorded
    \/ ReleaseUnrecorded
    \/ FsEvent
    \/ ObserveOs
    \/ ReadCall
    \/ ReadQueue
    \/ ReadFails
    \/ ReadDead
    \/ Dispatch

\* the loop thread runs whenever it can: a read returns once the kernel has
\* something for it, and the loop's own steps are taken
OsFairSpec ==
    /\ Init /\ [][OsFairNext]_vars
    /\ WF_vars(ReadCall)
    /\ WF_vars(ReadQueue)
    /\ WF_vars(ReadDead)
    /\ WF_vars(Dispatch)

(* ------------------------------------------------------------------ *)
(* Properties of the observe loop (checked under Spec)                  *)
(* ------------------------------------------------------------------ *)

\* a read returned in this step
ReadReturned == pc = "blocked" /\ pc' # "blocked"

\* offset of record i of a wire
RECURSIVE OffsetOf(_, _)
OffsetOf(wire, i) ==
    IF i <= 1 THEN 0 ELSE OffsetOf(wire, i - 1) + HeaderSize + wire[i - 1].len

\* the last read returned exactly the records of lastRead.wire, all well-formed
WellFormedRead ==
    /\ lastRead.n >= HeaderSize
    /\ \A i \in 1 .. Len(lastRead.wire) : lastRead.wire[i] \in WellFormedKinds
    /\ lastRead.n = Len(Flatten(lastRead.wire))

\* sink call i is the call for record i of the wire
CallMatches(i) ==
    /\ calls[i].pos = OffsetOf(lastRead.wire, i)
    /\ calls[i].wd = lastRead.wire[i].wd
    /\ calls[i].mask = lastRead.wire[i].mask
    /\ calls[i].len = lastRead.wire[i].len

\* the sink calls made so far are the first records of the wire, in order,
\* and all of them once the loop is back at read
CallsFollowWire ==
    /\ Len(calls) <= Len(lastRead.wire)
    /\ \A i \in 1 .. Len(calls) : CallMatches(i)
    /\ pc = "read" => Len(calls) = Len(lastRead.wire)

\* the byte ranges of two sink calls' records do not meet
NoByteTwice ==
    \A i, j \in 1 .. Len(calls) :
        i < j => calls[i].pos + HeaderSize + calls[i].len <= calls[j].pos

\* C1: a read of N >= 1 well-formed records packed back to back makes the
\* loop call the sink exactly N times, once per record, in buffer order, and
\* no byte belongs to the records of two calls.
C1_OneCallPerRecord == WellFormedRead => CallsFollowWire /\ NoByteTwice

C1_Witness ==
    /\ WellFormedRead
    /\ pc = "read"
    /\ Len(calls) = 2
    /\ calls[1].len = HeaderSize
    /\ calls[2].pos = 2 * HeaderSize

\* C2: a read that returns 0 bytes, or fails with an error other than EINTR,
\* makes observe return without another read, whatever the reads before it.
C2_StopsOnEofOrError ==
    [][ (ReadReturned /\ (lastRead'.n = 0 \/ (lastRead'.n < 0 /\ lastRead'.err # EINTR)))
            => pc' = "stopped" ]_vars

\* C3: a read interrupted by a signal is retried: observe does not return,
\* the sink is not called for it, and the loop is back at read on the same
\* descriptor.
C3_InterruptedReadRetried ==
    [][ (ReadReturned /\ lastRead'.n < 0 /\ lastRead'.err = EINTR)
            => (pc' = "read" /\ calls' = << >> /\ deliveredN' = deliveredN /\ fd' = fd) ]_vars

C3_Witness == pc = "read" /\ lastRead.n < 0 /\ lastRead.err = EINTR

\* the sink threw in this step, for the first time since the read
SinkThrew == thrownAt = 0 /\ thrownAt' > 0

\* C5: when the sink throws, the loop clears the exception, does not return,
\* and goes on with the next record or the next read; the calls of a read in
\* which a call threw are the same calls, in the same order.
C5_SinkFailureContained ==
    /\ [](~pending)
    /\ []((thrownAt > 0 /\ WellFormedRead) => CallsFollowWire)
    /\ [][ SinkThrew => /\ pc' = (IF HasMore(num_bytes') THEN "decode" ELSE "read")
                        /\ Len(calls') = Len(calls) + 1 ]_vars

C5_Witness ==
    /\ thrownAt = 1
    /\ WellFormedRead
    /\ Len(calls) = 2
    /\ pc = "read"
    /\ ~pending

\* C6: no record is dispatched unless all of its bytes (header + nameLength)
\* lie inside the bytes the read returned; a record that runs past them is
\* not passed to the sink.
C6_NoPartialRecordDispatched ==
    \A i \in 1 .. Len(calls) :
        /\ calls[i].pos >= 0
        /\ calls[i].len >= 0
        /\ calls[i].pos + HeaderSize + calls[i].len <= lastRead.n

\* the name field of sink call i: its first byte, and the end of the declared
\* bytes that lie in event_buf
NameStart(i) == calls[i].pos + HeaderSize
NameEnd(i) ==
    IF calls[i].len < 0 THEN BufSize
    ELSE Min(NameStart(i) + calls[i].len, BufSize)

\* C7: the sink receives a null name for nameLength 0, and for nameLength
\* k > 0 the name bytes before the first NUL inside the declared k bytes.
C7_NameUpToFirstNul ==
    \A i \in 1 .. Len(calls) :
        HeaderInBuf(calls[i].pos) =>
            /\ calls[i].len = 0 => calls[i].path = NULL
            /\ calls[i].len # 0 =>
                \A p \in NameStart(i) .. NameEnd(i) - 1 :
                    (/\ ByteAt(event_buf, p) = 0
                     /\ \A q \in NameStart(i) .. p - 1 : ByteAt(event_buf, q) # 0)
                        => calls[i].path = JString(Bytes(event_buf, NameStart(i), p))

C7_Witness ==
    /\ Len(calls) = 2
    /\ calls[1].len = 0 /\ calls[1].path = NULL
    /\ calls[2].len = HeaderSize /\ calls[2].path = JString(<< 97 >>)
    /\ ByteAt(event_buf, NameStart(2) + 2) = 98

(* ------------------------------------------------------------------ *)
(* Properties of the loop on an inotify instance (checked under OsSpec  *)
(* and OsFairSpec)                                                      *)
(* ------------------------------------------------------------------ *)

\* release closed the channel under a read in progress on it
ReleasedUnderRead == pc = "blocked" /\ readOn = "released"

\* C4: when release closes the channel while observe is blocked in read on
\* it, observe eventually returns.
C4_ReleaseStopsBlockedLoop == ReleasedUnderRead ~> (pc = "stopped")

\* observe is running on the channel's descriptor
Running == pc \in {"read", "blocked", "decode"} /\ fd = ChanFd

\* the name the sink must receive for a queued record
SinkName(r) ==
    IF r.mask \in EventKinds
    THEN JString(CHOOSE nm \in FileNames : r = Queued(r.path, EventRec(r.wd, r.mask, nm)))
    ELSE NULL

\* sink call i carries the handle, the mask and the name of record i of the
\* records the read took from the queue
Delivers(i) ==
    /\ calls[i].wd = lastRead.wire[i].wd
    /\ calls[i].mask = lastRead.wire[i].mask
    /\ calls[i].path = SinkName(lastRead.wire[i])

\* C8: while observe runs on the channel, every record the kernel queues for
\* an event matching a watch is eventually passed to the sink, with the
\* watch's handle, the event's mask and the file's name, unless the channel
\* is closed or a read fails.
C8_QueuedEventDelivered ==
    /\ [](\A i \in 1 .. Len(calls) : i <= Len(lastRead.wire) /\ Delivers(i))
    /\ \A i \in 1 .. MaxEvents :
          (Running /\ queuedN >= i /\ deliveredN < i)
              ~> (deliveredN >= i \/ ~chanOpen \/ lastRead.n = -1 \/ pc = "stopped")

C8_Witness ==
    /\ Running /\ chanOpen
    /\ queuedN = MaxEvents /\ deliveredN = MaxEvents
    /\ Len(calls) >= 1
    /\ calls[Len(calls)].mask = IN_CREATE
    /\ calls[Len(calls)].path = JString(<< 97 >>)
    /\ calls[Len(calls)].wd \in DOMAIN issued

\* C9: whatever the interleaving of startWatching, stopWatching and the
\* loop, a sink call for an event on a path carries the handle startWatching
\* returned for that path and no other path's handle, and the live watches
\* of the open channel are the handles added minus the handles removed.
C9_HandlesConsistent ==
    /\ chanOpen => DOMAIN watches = DOMAIN issued \ removed
    /\ lastRead.live =>
          \A i \in 1 .. Len(calls) :
              /\ calls[i].wd \in DOMAIN issued
              /\ issued[calls[i].wd] = lastRead.wire[i].path
              /\ \A h \in DOMAIN issued :
                    issued[h] # lastRead.wire[i].path => calls[i].wd # h

C9_Witness ==
    /\ lastRead.live /\ chanOpen
    /\ DOMAIN issued = {1, 2} /\ removed = {1} /\ DOMAIN watches = {2}
    /\ Len(calls) = 2
    /\ issued[calls[1].wd] = "B" /\ calls[1].mask \in EventKinds
    /\ issued[calls[2].wd] = "A" /\ calls[2].mask = IN_IGNORED

\* release was called in this step on a negative handle
ReleaseOfNegative == lastCall' # lastCall /\ lastCall'.op = "release" /\ lastCall'.fd < 0

\* C10: release on a negative handle closes nothing and changes nothing:
\* the open channel, its watches, its queue and the loop are as before.
C10_ReleaseNegativeNoOp ==
    [][ ReleaseOfNegative =>
            /\ ~lastCall'.sys
            /\ UNCHANGED << kernelVars, loopVars, lastRead, calls, thrownAt, queuedN,
                            deliveredN, issued, removed >> ]_vars

C10_Witness ==
    /\ lastCall.op = "release" /\ lastCall.fd < 0
    /\ chanOpen /\ DOMAIN watches = {1, 2} /\ queue # << >>
    /\ pc = "blocked" /\ readOn = "live"

(* ------------------------------------------------------------------ *)
(* Properties of the registration calls (checked under OsSpec)          *)
(* ------------------------------------------------------------------ *)

\* startWatching was called in this step on a path that does not exist
StartOnNoPath == lastCall' # lastCall /\ lastCall'.op = "start" /\ lastCall'.arg = NoPath

\* C11: startWatching on a path that does not exist returns a negative
\* result, issues no handle and leaves the live watches as they were; no
\* watch, no queued record and no sink call is ever for that path.
C11_NoPathNoWatch ==
    /\ [][ StartOnNoPath =>
              /\ lastCall'.res < 0
              /\ UNCHANGED << watches, issued, queue, nextWd >> ]_vars
    /\ [](/\ \A h \in DOMAIN watches : watches[h].path # NoPath
          /\ \A h \in DOMAIN issued : issued[h] # NoPath
          /\ \A i \in 1 .. Len(queue) : queue[i].path # NoPath
          /\ \A i \in 1 .. Len(lastRead.wire) : lastRead.wire[i].path # NoPath)

C11_Witness ==
    /\ lastCall.op = "start" /\ lastCall.arg = NoPath /\ lastCall.fd = ChanFd
    /\ lastCall.res < 0
    /\ chanOpen /\ DOMAIN watches = {1} /\ DOMAIN issued = {1}
    /\ Running

\* stopWatching was called in this step with a handle startWatching never
\* returned on the channel
StopOfUnregistered ==
    lastCall' # lastCall /\ lastCall'.op = "stop" /\ lastCall'.arg \notin DOMAIN issued

\* C12: stopWatching with a handle that was never registered does not stop
\* the loop and changes no watch: the watches, the queue and the loop are as
\* before, so the events of every live watch go on with the same handle.
C12_UnknownHandleNoEffect ==
    [][ StopOfUnregistered =>
            UNCHANGED << kernelVars, loopVars, lastRead, calls, thrownAt, queuedN, deliveredN,
                         issued, removed >> ]_vars

C12_Witness ==
    /\ lastCall.op = "stop" /\ lastCall.fd = ChanFd /\ lastCall.arg = 2
    /\ chanOpen /\ DOMAIN issued = {1} /\ DOMAIN watches = {1} /\ removed = {}
    /\ pc = "blocked" /\ readOn = "live"

(* ------------------------------------------------------------------ *)
(* Further properties of the observe loop                               *)
(* ------------------------------------------------------------------ *)

\* observe returned in this step, on the result of a read
StoppedOnRead == ReadReturned /\ pc' = "stopped"

\* C13: when observe returns on a short read that is not taken for an
\* interrupted one, the sink is called for none of its bytes, the channel is
\* left as it is (observe closes nothing), and the loop never reads again.
C13_ShortReadStopsQuietly ==
    /\ [][ StoppedOnRead =>
              /\ lastRead'.n < HeaderSize
              /\ calls' = << >>
              /\ UNCHANGED << kernelVars, deliveredN >> ]_vars
    /\ [][ (ReadReturned /\ lastRead'.n < HeaderSize /\ errno' # EINTR)
              => pc' = "stopped" ]_vars
    /\ [][ pc = "stopped" =>
              /\ pc' = "stopped"
              /\ readOn' = "none"
              /\ UNCHANGED << calls, deliveredN >> ]_vars

C13_Witness ==
    /\ pc = "stopped" /\ fd = ChanFd
    /\ lastRead.n = HeaderSize \div 2
    /\ calls = << >>
    /\ chanOpen /\ readOn = "none"

\* the loop enters read in this step
ReadEntered == pc = "read" /\ pc' = "blocked"

\* C14: the loop enters read only when no whole header of the previous read
\* is left and every record of that read has had its sink call; a read takes
\* the oldest queued records in queue order and the calls follow that order,
\* so the sink sees the records in the order the kernel queued them.
C14_DispatchBeforeNextRead ==
    /\ [][ ReadEntered =>
              /\ num_bytes < HeaderSize
              /\ lastRead.n >= HeaderSize => Len(calls) = Len(lastRead.wire) ]_vars
    /\ [][ (ReadReturned /\ lastRead'.n >= HeaderSize)
              => lastRead'.wire \o queue' = queue ]_vars
    /\ [](\A i \in 1 .. Len(calls) :
              /\ i <= Len(lastRead.wire)
              /\ calls[i].pos = OffsetOf(lastRead.wire, i)
              /\ calls[i].wd = lastRead.wire[i].wd
              /\ calls[i].mask = lastRead.wire[i].mask)

C14_Witness ==
    /\ pc = "read" /\ fd = ChanFd
    /\ Len(lastRead.wire) = 2 /\ Len(calls) = 2
    /\ num_bytes = 0
    /\ deliveredN = 2
    /\ calls[1].mask = IN_CREATE /\ calls[2].mask = IN_IGNORED

\* a stopWatching removes a registered watch in this step
WatchRemoved == removed' # removed

\* C15: a stopWatching that removes a watch takes no record out of the queue
\* and touches nothing the loop has already read, and the loop makes the sink
\* call of every record it reads for a removed handle, with that handle, as
\* for any other record.
C15_RemoveDoesNotRetract ==
    /\ [][ WatchRemoved =>
              /\ Len(queue') >= Len(queue)
              /\ SubSeq(queue', 1, Len(queue)) = queue
              /\ UNCHANGED << loopVars, lastRead, calls, deliveredN >> ]_vars
    /\ [][ (ReadEntered /\ lastRead.n >= HeaderSize) =>
              \A i \in 1 .. Len(lastRead.wire) :
                  lastRead.wire[i].wd \in removed =>
                      /\ i <= Len(calls)
                      /\ calls[i].wd = lastRead.wire[i].wd
                      /\ calls[i].mask = lastRead.wire[i].mask
                      /\ calls[i].path = SinkName(lastRead.wire[i]) ]_vars

C15_Witness ==
    /\ pc = "read" /\ fd = ChanFd
    /\ Len(lastRead.wire) = 2 /\ Len(calls) = 2
    /\ lastRead.wire[1].mask = IN_CREATE
    /\ lastRead.wire[2].mask = IN_IGNORED
    /\ lastRead.wire[2].wd = lastRead.wire[1].wd
    /\ calls[1].wd \in removed
    /\ calls[1].wd = lastRead.wire[1].wd
    /\ calls[1].mask = IN_CREATE

\* startWatching is called on a negative channel handle in this step
StartOnNegative == lastCall' # lastCall /\ lastCall'.op = "start" /\ lastCall'.fd < 0

\* C16: startWatching on a negative channel handle returns -1 without calling
\* inotify_add_watch; it issues no handle and leaves the watches, the queue
\* and the loop as they were.
C16_NegativeChannelNoWatch ==
    [][ StartOnNegative =>
          /\ lastCall'.res = -1
          /\ ~ lastCall'.sys
          /\ UNCHANGED << kernelVars, loopVars, lastRead, calls, thrownAt, queuedN,
                          deliveredN, issued, removed >> ]_vars

C16_Witness ==
    /\ lastCall.op = "start" /\ lastCall.fd < 0
    /\ lastCall.arg \in Paths
    /\ lastCall.res = -1 /\ ~ lastCall.sys
    /\ chanOpen
    /\ DOMAIN watches = {} /\ DOMAIN issued = {}

\* one iteration of the inner loop runs in this step
Iterated == pc = "decode" /\ Len(calls') = Len(calls) + 1

\* C17: every iteration of the inner loop takes at least a header off
\* num_bytes, so the sink calls made for a read of B bytes number at most
\* B / sizeof(*event).
C17_DecodingTerminates ==
    /\ [][ Iterated => num_bytes' + HeaderSize <= num_bytes ]_vars
    /\ [](lastRead.n >= HeaderSize => Len(calls) * HeaderSize <= lastRead.n)

\* C18: while the loop decodes, event_pos + num_bytes is the byte count of the
\* read, the header at event_pos lies inside the bytes the read returned, and
\* the read returned at most sizeof(event_buf) bytes; decoding starts at
\* event_pos 0 after each read.
C18_CursorInsideRead ==
    /\ [](pc = "decode" =>
              /\ event_pos + num_bytes = lastRead.n
              /\ event_pos >= 0
              /\ event_pos + HeaderSize <= lastRead.n
              /\ lastRead.n <= BufSize)
    /\ [][ (ReadReturned /\ pc' = "decode") => event_pos' = 0 ]_vars

====
